---- MODULE Spec2Model ----
(***************************************************************************)
(* A model of du.c (dereklance/DiskUsage): argument parsing, the size      *)
(* formatter, the depth policy, the recursive directory walk and the       *)
(* top-level reporter.                                                     *)
(*                                                                         *)
(* A C string is a sequence of one-character strings, so that strlen, the  *)
(* character tests of ReadCmdArguments, strtol, strcpy/strcat and sprintf  *)
(* are modelled by what they do to the characters.                         *)
(***************************************************************************)
EXTENDS Integers, Sequences, FiniteSets, TLC

(***************************************************************************)
(* Bounds of the model.                                                    *)
(***************************************************************************)
\* longest run of arbitrary tokens in an argument vector
MaxArgs == 2
\* how far beyond MAX_FILES the long vectors of target paths go
MaxOver == 1
\* largest mantissa m of the sizes m * 1024^e given to the formatter
MaxMant == 12

(***************************************************************************)
(* Program constants.                                                      *)
(***************************************************************************)
MAX_FILES == 128
BYTE_CONV == 1024
EXIT_SUCCESS == 0
EXIT_FAILURE == 1
\* the value of a DIR* that opendir returns on failure
NULL == 0
\* number of divisions by BYTE_CONV from kb to tb (kb, mb, gb, tb)
TopUnit == 3

(***************************************************************************)
(* Characters and strings.                                                 *)
(***************************************************************************)
DigitChars == <<"0", "1", "2", "3", "4", "5", "6", "7", "8", "9">>

IsDigit(c) == \E i \in 1..10 : DigitChars[i] = c

DigitVal(c) == (CHOOSE i \in 1..10 : DigitChars[i] = c) - 1

\* s[i] of a C string, 0-based; the terminating NUL is the empty string
CharAt(s, i) == IF i < Len(s) THEN s[i + 1] ELSE ""

\* the string from offset i on (the pointer s + i)
StrFrom(s, i) == SubSeq(s, i + 1, Len(s))

\* sprintf "%d" of a non-negative int
RECURSIVE FmtInt(_)
FmtInt(n) == IF n < 10 THEN <<DigitChars[n + 1]>>
             ELSE FmtInt(n \div 10) \o <<DigitChars[(n % 10) + 1]>>

\* printf "%-8s" / "%-8ld": the field, left-justified, padded to width 8
RECURSIVE Pad8(_)
Pad8(s) == IF Len(s) >= 8 THEN s ELSE Pad8(s \o <<" ">>)

Str_max_depth == <<"-", "-", "m", "a", "x", "-", "d", "e", "p", "t", "h", "=">>

(***************************************************************************)
(* strtol(s, NULL, 10): skips white space, reads an optional sign and the  *)
(* longest run of decimal digits.  conv tells whether a digit was read;    *)
(* with none the result is 0.  (Values beyond LONG_MAX, which set ERANGE,  *)
(* are longer than any value the model draws.)                             *)
(***************************************************************************)
RECURSIVE SkipSpace(_)
SkipSpace(s) == IF s # <<>> /\ Head(s) = " " THEN SkipSpace(Tail(s)) ELSE s

RECURSIVE StrtolDigits(_, _)
StrtolDigits(s, acc) ==
    IF s # <<>> /\ IsDigit(Head(s))
    THEN StrtolDigits(Tail(s), acc * 10 + DigitVal(Head(s)))
    ELSE acc

strtol(s) ==
    LET t    == SkipSpace(s)
        sign == t # <<>> /\ Head(t) \in {"-", "+"}
        u    == IF sign THEN Tail(t) ELSE t
        conv == u # <<>> /\ IsDigit(Head(u))
        v    == StrtolDigits(u, 0)
    IN  [val  |-> IF ~conv THEN 0 ELSE IF Head(t) = "-" THEN 0 - v ELSE v,
         conv |-> conv]

(***************************************************************************)
(* The doubles of PrintFileReadable.  A size is a long; the doubles the    *)
(* function forms from it are size / 1024^k and ten times that, so a       *)
(* double is held exactly as m * 1024^e with m a natural and e an integer  *)
(* (division by 1024 is exact in binary floating point).  Sizes of the     *)
(* G and T tiers exceed the model checker's integers and are given as      *)
(* m * 1024^e with e > 0.                                                  *)
(***************************************************************************)
Pow1024(k) == IF k = 0 THEN 1 ELSE IF k = 1 THEN 1024
              ELSE IF k = 2 THEN 1048576 ELSE 1073741824

\* (double)size
ToDouble(size) == [m |-> size, e |-> 0]

\* x / BYTE_CONV
DivConv(x) == [m |-> x.m, e |-> x.e - 1]

\* x * 10
Times10(x) == [m |-> x.m * 10, e |-> x.e]

\* x >= 1
GeOne(x) == IF x.e >= 0 THEN x.m >= 1 ELSE x.m >= Pow1024(0 - x.e)

\* (int)x : truncation
Trunc(x) == IF x.e >= 0 THEN x.m * Pow1024(x.e) ELSE x.m \div Pow1024(0 - x.e)

\* x - (int)x > 0
HasFrac(x) == x.e < 0 /\ x.m % Pow1024(0 - x.e) > 0

\* x > n, for an integer n
GtInt(x, n) == Trunc(x) > n \/ (Trunc(x) = n /\ HasFrac(x))

\* x / 10 > 1
TenthGtOne(x) == GtInt(x, 10)

\* ceiling(x), line 39: x - (int)x > 0 ? (int)(x + 1) : (int)x
ceiling(x) == IF HasFrac(x) THEN Trunc(x) + 1 ELSE Trunc(x)

\* sprintf "%.1lf" of t / 10.0 for an int t
FmtTenths(t) == FmtInt(t \div 10) \o <<".">> \o FmtInt(t % 10)

\* one tier of PrintFileReadable: the size string for the scaled value x
Tier(x, unit) ==
    IF TenthGtOne(x) THEN FmtInt(ceiling(x)) \o <<unit>>
    ELSE FmtTenths(ceiling(Times10(x))) \o <<unit>>

\* the size string PrintFileReadable builds for kb
ReadableSize(kb) ==
    LET mb == DivConv(kb)
        gb == DivConv(mb)
        tb == DivConv(gb)
    IN  IF GeOne(tb) THEN Tier(tb, "T")
        ELSE IF GeOne(gb) THEN Tier(gb, "G")
        ELSE IF GeOne(mb) THEN Tier(mb, "M")
        ELSE IF TenthGtOne(kb) THEN FmtInt(ceiling(kb)) \o <<"K">>
        ELSE IF kb.m = 0 THEN <<"0">>
        ELSE FmtTenths(ceiling(Times10(kb))) \o <<"K">>

\* the line PrintFileReadable prints: RD_FORMAT "%-8s%s\n"
PrintFileReadable(file, kb) == [field |-> Pad8(ReadableSize(kb)), name |-> file]

\* the line PrintFileUsage prints (its return value is size itself)
PrintFileUsage(size, name, mode) ==
    IF mode.readable = 1
    THEN PrintFileReadable(name, ToDouble(size))
    ELSE [field |-> Pad8(FmtInt(size)), name |-> name]

\* lines 147-149
DepthOK(depth, mode) == depth <= mode.depth \/ mode.depth = -1

\* isFile without the S_ISLNK case
isFileRegOnly(type) == type = "reg"

\* lines 30-32: S_ISREG(type) || S_ISLNK(type)
isFile(type) == type \in {"reg", "lnk"}

\* lines 34-36
isDir(type) == type = "dir"

(***************************************************************************)
(* The file system the program runs on.  The working directory is the      *)
(* root directory, so "." and "/" name the same directory and both rules   *)
(* of the path join of lines 171-174 are exercised.  A node's name is its  *)
(* identifier; st_blocks is in 512-byte blocks.  Every directory yields    *)
(* "." and ".." before its entries.                                        *)
(***************************************************************************)
Nodes == {"root", "a", "d", "f", "l", "s", "g", "p"}

StMode == [n \in Nodes |->
             CASE n \in {"root", "d", "s"} -> "dir"
               [] n \in {"a", "f", "g"}    -> "reg"
               [] n = "l"                  -> "lnk"
               [] OTHER                    -> "fifo"]

StBlocks == [n \in Nodes |->
               CASE n = "a" -> 7
                 [] n = "f" -> 16
                 [] n = "l" -> 2
                 [] n = "g" -> 24
                 [] n = "p" -> 2
                 [] OTHER   -> 8]

Children == [n \in Nodes |->
               CASE n = "root" -> <<"a", "d", "p">>
                 [] n = "d"    -> <<"f", "l", "s">>
                 [] n = "s"    -> <<"g">>
                 [] OTHER      -> <<>>]

\* the names readdir yields for a directory, in order
Entries(n) == << <<".">>, <<".", ".">> >> \o [i \in 1..Len(Children[n]) |-> <<Children[n][i]>>]

Range(q) == {q[i] : i \in 1..Len(q)}

\* every path name that resolves, with the node it resolves to
RECURSIVE PathsUnder(_, _)
PathsUnder(prefix, n) ==
    {<<prefix, n>>} \cup
    UNION {PathsUnder(prefix \o <<"/", c>>, c) : c \in Range(Children[n])}

Resolves ==
    PathsUnder(<<".">>, "root") \cup PathsUnder(<<"/">>, "root")
    \cup UNION {PathsUnder(<<"/", c>>, c) : c \in Range(Children["root"])}
    \cup UNION {PathsUnder(<<c>>, c) : c \in Range(Children["root"])}

NodeOf(path) == CHOOSE n \in Nodes : <<path, n>> \in Resolves

\* lstat(path, &buf): the status and, on success, what it stores in buf
lstat(path) ==
    IF \E n \in Nodes : <<path, n>> \in Resolves
    THEN [ok |-> TRUE, st_mode |-> StMode[NodeOf(path)], st_blocks |-> StBlocks[NodeOf(path)]]
    ELSE [ok |-> FALSE, st_mode |-> "none", st_blocks |-> 0]

\* what a struct stat that was never written may hold
Indeterminate == {[st_mode |-> t, st_blocks |-> b] : t \in {"reg", "dir"}, b \in {0, 8}}

\* the child path built by strcpy/strcat, lines 171-174
ChildPath(file, name) ==
    (IF file # <<"/">> THEN file \o <<"/">> ELSE file) \o name

(***************************************************************************)
(* Argument vectors.                                                       *)
(***************************************************************************)
Tokens ==
    { <<"-", "a">>, <<"-", "c">>, <<"-", "h">>, <<"-", "a", "x">>,
      <<"-", "-", "x">>,
      <<"-", "-", "m", "a", "x", "-", "w", "i", "d", "t", "h", "=", "1">>,
      Str_max_depth \o <<"0">>, Str_max_depth \o <<"1">>,
      Str_max_depth \o <<"-", "1">>, Str_max_depth,
      Str_max_depth \o <<"a">>, Str_max_depth \o <<"1", "a">>,
      <<"d">>, <<"a">>, <<"d", "/", "l">>, <<"p">>, <<"n", "o">>, <<"/">> }

RECURSIVE SeqsUpTo(_, _)
SeqsUpTo(S, n) ==
    IF n = 0 THEN {<<>>}
    ELSE LET shorter == SeqsUpTo(S, n - 1)
         IN  shorter \cup {Append(q, x) : q \in shorter, x \in S}

\* n copies of the target path "a"
Targets(n) == [i \in 1..n |-> <<"a">>]

\* the options that set one toggle of the mode
ModeOpts == { <<"-", "a">>, <<"-", "c">>, <<"-", "h">> }

\* up to MaxArgs tokens, the longest also behind one more option, and the
\* vectors of about MAX_FILES target paths
ArgVectors ==
    SeqsUpTo(Tokens, MaxArgs)
    \cup {<<o>> \o v : o \in ModeOpts, v \in SeqsUpTo(Tokens, MaxArgs) \ SeqsUpTo(Tokens, MaxArgs - 1)}
    \cup {Targets(n) : n \in (MAX_FILES - 1)..(MAX_FILES + MaxOver)}

\* the sizes given to PrintFileReadable: m * 1024^e for small m and for the
\* m on either side of 1024 and of 10 * 1024
FmtSizes ==
    {[m |-> m, e |-> e] :
        m \in (0..MaxMant) \cup {99, 100, 101} \cup (1023..1025) \cup (10239..10241),
        e \in 0..TopUnit}

(***************************************************************************)
(* The state.                                                              *)
(***************************************************************************)
VARIABLES
    argv,      \* argv[1..argc-1], fixed for a run
    noperm,    \* the directories opendir fails on, fixed for a run
    argi,      \* ReadCmdArguments: the index of the argument argv points at
    mode,      \* the Mode of main
    files,     \* the target paths written through the files pointer, in order
    filesTop,  \* the highest slot of the files array written so far, -1 if none
    invalid,   \* ReadCmdArguments: invalid
    pc,        \* where main is
    fi,        \* PrintDiskUsage: the index of the target files points at
    total,     \* PrintDiskUsage: total
    retVal,    \* PrintDiskUsage: retVal
    status,    \* the exit status of the process, -1 while it runs
    stack,     \* the frames of PrintDirectoryUsage, innermost last
    handles,   \* the directory streams that are open
    nextDir,   \* the next stream opendir hands out
    closeLog,  \* the arguments closedir was called with, in order
    out,       \* the lines on standard output
    err,       \* the diagnostics on standard error
    lastRet,   \* what the last return of PrintDirectoryUsage returned
    fmtIn,     \* formatter runs: the size given to PrintFileReadable
    fmtOut     \* formatter runs: the lines it printed

vars == <<argv, noperm, argi, mode, files, filesTop, invalid, pc, fi, total,
          retVal, status, stack, handles, nextDir, closeLog, out, err, lastRet,
          fmtIn, fmtOut>>

progName == <<"d", "u">>

\* Mode mode = {0, 0, 0, -1, *argv}
Mode0 == [all |-> 0, total |-> 0, readable |-> 0, depth |-> -1, progName |-> progName]

NoRet == [file |-> <<>>, total |-> 0, opened |-> FALSE, depth |-> 0]

Init ==
    /\ argv \in ArgVectors
    /\ noperm \in {{}, {"s"}, {"d"}}
    /\ argi = 1
    /\ mode = Mode0
    /\ files = <<>>
    /\ filesTop = -1
    /\ invalid = 0
    /\ pc = "args"
    /\ fi = 1
    /\ total = 0
    /\ retVal = 0
    /\ status = -1
    /\ stack = <<>>
    /\ handles = {}
    /\ nextDir = 1
    /\ closeLog = <<>>
    /\ out = <<>>
    /\ err = <<>>
    /\ lastRet = NoRet
    /\ fmtIn = [m |-> 0, e |-> 0]
    /\ fmtOut = <<>>

(***************************************************************************)
(* ReadCmdArguments, lines 42-100.                                         *)
(***************************************************************************)
Diag(msg, arg) == [msg |-> msg, arg |-> arg, prog |-> mode.progName]

\* the for loop of lines 51-54: the i it ends with
RECURSIVE MatchLen(_, _)
MatchLen(a, i) ==
    IF i < 12 /\ Str_max_depth[i + 1] = CharAt(a, i) THEN MatchLen(a, i + 1) ELSE i

\* line 58, with a depth below -1 as the only negative depth refused
InvalidDepthBelow(errno, depth, first) == errno # 0 \/ depth < -1 \/ first = ""

\* line 58: errno || depth < 0 || !argv[0][12]
InvalidDepth(errno, depth, first) == errno # 0 \/ depth < 0 \/ first = ""

\* the while loop of lines 77-89 over the characters after the first
RECURSIVE ShortOpts(_, _)
ShortOpts(cs, st) ==
    IF cs = <<>> THEN st
    ELSE LET c == Head(cs)
         IN  ShortOpts(Tail(cs),
               IF c = "a" THEN [st EXCEPT !.mode.all = 1]
               ELSE IF c = "c" THEN [st EXCEPT !.mode.total = 1]
               ELSE IF c = "h" THEN [st EXCEPT !.mode.readable = 1]
               ELSE [st EXCEPT !.errs = Append(@, Diag("invalid option", <<c>>)),
                               !.invalid = 1])

\* a store through the files pointer at slot i: inside the array it succeeds;
\* outside it is undefined, and the run either goes on or faults
StoreFaults(i) == IF i >= MAX_FILES THEN BOOLEAN ELSE {FALSE}

WalkVarsUnchanged == UNCHANGED <<stack, handles, nextDir, closeLog, lastRet>>

\* one iteration of the loop of line 45
ReadArg ==
    /\ pc = "args"
    /\ argi <= Len(argv)
    /\ LET a == argv[argi] IN
       IF Len(a) >= 12 /\ CharAt(a, 0) = "-" /\ CharAt(a, 1) = "-"
       THEN IF MatchLen(a, 0) = 12
            THEN LET r == strtol(StrFrom(a, 12)) IN
                 \* with no digits read strtol may or may not set errno to EINVAL
                 \E errno \in (IF r.conv THEN {0} ELSE {0, 22}) :
                    LET bad == InvalidDepth(errno, r.val, CharAt(a, 12)) IN
                    /\ err' = IF bad
                              THEN Append(err, Diag("invalid maximum depth", StrFrom(a, 12)))
                              ELSE err
                    /\ invalid' = IF bad THEN 1 ELSE invalid
                    /\ mode' = [mode EXCEPT !.depth = r.val]
                    /\ UNCHANGED <<files, filesTop, pc>>
            ELSE /\ err' = Append(err, Diag("unrecognized option", a))
                 /\ invalid' = 1
                 /\ UNCHANGED <<mode, files, filesTop, pc>>
       ELSE IF CharAt(a, 0) = "-" /\ CharAt(a, 1) = "-"
       THEN /\ err' = Append(err, Diag("unrecognized option", a))
            /\ invalid' = 1
            /\ UNCHANGED <<mode, files, filesTop, pc>>
       ELSE IF CharAt(a, 0) = "-"
       THEN LET st == ShortOpts(Tail(a), [mode |-> mode, errs |-> err, invalid |-> invalid]) IN
            /\ mode' = st.mode
            /\ err' = st.errs
            /\ invalid' = st.invalid
            /\ UNCHANGED <<files, filesTop, pc>>
       ELSE \E fault \in StoreFaults(Len(files)) :
            /\ files' = Append(files, a)
            /\ filesTop' = Len(files)
            /\ pc' = IF fault THEN "fault" ELSE pc
            /\ UNCHANGED <<mode, err, invalid>>
    /\ argi' = argi + 1
    /\ WalkVarsUnchanged
    /\ UNCHANGED <<argv, noperm, fi, total, retVal, status, out, fmtIn, fmtOut>>

\* lines 95-99: the terminating NULL, and exit on an invalid option
EndArgs ==
    /\ pc = "args"
    /\ argi > Len(argv)
    /\ filesTop' = Len(files)
    /\ \E fault \in StoreFaults(Len(files)) :
          IF fault
          THEN /\ pc' = "fault"
               /\ UNCHANGED <<err, status>>
          ELSE IF invalid # 0
          THEN /\ err' = Append(err, Diag("Try `du --help' for more information.", <<>>))
               /\ status' = EXIT_FAILURE
               /\ pc' = "exit"
          ELSE /\ pc' = "report"
               /\ UNCHANGED <<err, status>>
    /\ WalkVarsUnchanged
    /\ UNCHANGED <<argv, noperm, argi, mode, files, invalid, fi, total, retVal,
                   out, fmtIn, fmtOut>>

(***************************************************************************)
(* PrintDirectoryUsage, lines 151-189.  A frame holds the locals of one    *)
(* call: file, dir (with the directory the stream reads and its position), *)
(* buf, total, and where the call is: "enter" (lines 152-165), "loop"      *)
(* (166-185) or "cleanup" (187-188).                                       *)
(***************************************************************************)
Frame(file, depth) ==
    [file |-> file, depth |-> depth, dir |-> NULL, node |-> "root", pos |-> 0,
     buf |-> [st_mode |-> "none", st_blocks |-> 0], total |-> 0, at |-> "enter"]

Top == stack[Len(stack)]

SetTop(f) == [stack EXCEPT ![Len(stack)] = f]

Walking == pc \in {"callDefault", "callTarget"} /\ stack # <<>>

\* a line on standard output, with the value it shows, the call that printed
\* it (line 178 "entry", 185 "dir", 205 "target", 211 "total") and its depth
Line(size, name, site, depth) ==
    [field |-> PrintFileUsage(size, name, mode).field, name |-> name,
     size |-> size, site |-> site, depth |-> depth]

\* opendir(file) succeeds
CanOpen(file) ==
    /\ lstat(file).ok
    /\ StMode[NodeOf(file)] = "dir"
    /\ NodeOf(file) \notin noperm

\* lines 152-165: opendir, lstat, the directory's own size, the open failure
EnterDir ==
    /\ Walking
    /\ Top.at = "enter"
    /\ LET f    == Top
           open == CanOpen(f.file)
           st   == lstat(f.file)
       IN  \E b \in (IF st.ok THEN {[st_mode |-> st.st_mode, st_blocks |-> st.st_blocks]}
                     ELSE Indeterminate) :
             /\ stack' = SetTop([f EXCEPT
                    !.dir   = IF open THEN nextDir ELSE NULL,
                    !.node  = IF open THEN NodeOf(f.file) ELSE @,
                    !.buf   = b,
                    !.total = b.st_blocks \div 2,
                    !.at    = IF open THEN "loop" ELSE "cleanup"])
             /\ handles' = IF open THEN handles \cup {nextDir} ELSE handles
             /\ nextDir' = IF open THEN nextDir + 1 ELSE nextDir
             /\ err' = IF open THEN err
                       ELSE Append(err, Diag("cannot read directory", f.file))
    /\ UNCHANGED <<argv, noperm, argi, mode, files, filesTop, invalid, pc, fi, total,
                   retVal, status, closeLog, out, lastRet, fmtIn, fmtOut>>

\* line 182 with the entry left out of the total
SilentAddNone(buf) == 0

\* line 182: what an entry that is not printed adds
SilentAdd(buf) == buf.st_blocks \div 2

\* lines 166-183: one entry that readdir yields
ReadEntry ==
    /\ Walking
    /\ Top.at = "loop"
    /\ Top.pos < Len(Entries(Top.node))
    /\ LET f    == Top
           name == Entries(f.node)[f.pos + 1]
           cdir == ChildPath(f.file, name)
           st   == lstat(cdir)
           buf  == IF st.ok THEN [st_mode |-> st.st_mode, st_blocks |-> st.st_blocks]
                   ELSE f.buf
           g    == [f EXCEPT !.pos = @ + 1]
       IN  IF name = <<".">> \/ name = <<".", ".">>
           THEN /\ stack' = SetTop(g)
                /\ UNCHANGED out
           ELSE IF isFile(buf.st_mode) /\ mode.all # 0 /\ DepthOK(f.depth + 1, mode)
           THEN /\ out' = Append(out, Line(buf.st_blocks \div 2, cdir, "entry", f.depth + 1))
                /\ stack' = SetTop([g EXCEPT !.buf = buf,
                                             !.total = @ + buf.st_blocks \div 2])
           ELSE IF isDir(buf.st_mode)
           THEN /\ stack' = Append(SetTop([g EXCEPT !.buf = buf]), Frame(cdir, f.depth + 1))
                /\ UNCHANGED out
           ELSE /\ stack' = SetTop([g EXCEPT !.buf = buf, !.total = @ + SilentAdd(buf)])
                /\ UNCHANGED out
    /\ UNCHANGED <<argv, noperm, argi, mode, files, filesTop, invalid, pc, fi, total,
                   retVal, status, handles, nextDir, closeLog, err, lastRet,
                   fmtIn, fmtOut>>

\* lines 166, 184-185: readdir yields NULL; the directory's own line
EndDir ==
    /\ Walking
    /\ Top.at = "loop"
    /\ Top.pos = Len(Entries(Top.node))
    /\ out' = IF DepthOK(Top.depth, mode)
              THEN Append(out, Line(Top.total, Top.file, "dir", Top.depth))
              ELSE out
    /\ stack' = SetTop([Top EXCEPT !.at = "cleanup"])
    /\ UNCHANGED <<argv, noperm, argi, mode, files, filesTop, invalid, pc, fi, total,
                   retVal, status, handles, nextDir, closeLog, err, lastRet,
                   fmtIn, fmtOut>>

\* closedir that leaves the stream open
closedirLeak(open, dir) == open

\* closedir(dir) on an open stream: the streams open afterwards
closedir(open, dir) == open \ {dir}

\* closedir(NULL) is undefined: it returns an error or the process faults
CloseFaults(dir) == IF dir = NULL THEN BOOLEAN ELSE {FALSE}

\* lines 187-188: closedir and the return to the caller (line 180, 197 or 207)
CloseDir ==
    /\ Walking
    /\ Top.at = "cleanup"
    /\ closeLog' = Append(closeLog, Top.dir)
    /\ \E fault \in CloseFaults(Top.dir) :
          IF fault
          THEN /\ pc' = "fault"
               /\ UNCHANGED <<stack, handles, lastRet, total, fi>>
          ELSE /\ handles' = closedir(handles, Top.dir)
               /\ lastRet' = [file |-> Top.file, total |-> Top.total,
                              opened |-> Top.dir # NULL, depth |-> Top.depth]
               /\ IF Len(stack) > 1
                  THEN /\ stack' = [SubSeq(stack, 1, Len(stack) - 1)
                                       EXCEPT ![Len(stack) - 1].total = @ + Top.total]
                       /\ UNCHANGED <<pc, total, fi>>
                  ELSE /\ stack' = <<>>
                       /\ pc' = "targets"
                       /\ total' = IF pc = "callDefault" THEN Top.total
                                   ELSE total + Top.total
                       /\ fi' = IF pc = "callDefault" THEN fi ELSE fi + 1
    /\ UNCHANGED <<argv, noperm, argi, mode, files, filesTop, invalid, retVal, status,
                   nextDir, out, err, fmtIn, fmtOut>>

(***************************************************************************)
(* PrintDiskUsage, lines 191-213, and the return of main, line 224.        *)
(***************************************************************************)
\* lines 196-197: with no target, the walk of "."
StartReport ==
    /\ pc = "report"
    /\ IF files = <<>>
       THEN /\ stack' = Append(stack, Frame(<<".">>, 0))
            /\ pc' = "callDefault"
       ELSE /\ pc' = "targets"
            /\ UNCHANGED stack
    /\ UNCHANGED <<argv, noperm, argi, mode, files, filesTop, invalid, fi, total,
                   retVal, status, handles, nextDir, closeLog, out, err, lastRet,
                   fmtIn, fmtOut>>

\* lines 198-208: one target
NextTarget ==
    /\ pc = "targets"
    /\ fi <= Len(files)
    /\ LET t  == files[fi]
           st == lstat(t)
       IN  IF ~st.ok
           THEN /\ err' = Append(err, Diag("cannot access", t))
                /\ retVal' = 1
                /\ fi' = fi + 1
                /\ UNCHANGED <<out, total, stack, pc>>
           ELSE IF isFile(st.st_mode)
           THEN /\ out' = Append(out, Line(st.st_blocks \div 2, t, "target", 0))
                /\ total' = total + st.st_blocks \div 2
                /\ fi' = fi + 1
                /\ UNCHANGED <<err, retVal, stack, pc>>
           ELSE IF isDir(st.st_mode)
           THEN /\ stack' = Append(stack, Frame(t, 0))
                /\ pc' = "callTarget"
                /\ UNCHANGED <<err, retVal, out, total, fi>>
           ELSE /\ fi' = fi + 1
                /\ UNCHANGED <<err, retVal, out, total, stack, pc>>
    /\ UNCHANGED <<argv, noperm, argi, mode, files, filesTop, invalid, status,
                   handles, nextDir, closeLog, lastRet, fmtIn, fmtOut>>

\* line 210 with the total printed always
WantTotalAlways(m) == TRUE

\* line 210: if (mode->total)
WantTotal(m) == m.total # 0

\* lines 210-212 and 224: the grand total and the exit status
PrintTotal ==
    /\ pc = "targets"
    /\ fi > Len(files)
    /\ out' = IF WantTotal(mode)
              THEN Append(out, Line(total, <<"t", "o", "t", "a", "l">>, "total", 0))
              ELSE out
    /\ status' = IF retVal # 0 THEN EXIT_FAILURE ELSE EXIT_SUCCESS
    /\ pc' = "exit"
    /\ UNCHANGED <<argv, noperm, argi, mode, files, filesTop, invalid, fi, total,
                   retVal, stack, handles, nextDir, closeLog, err, lastRet,
                   fmtIn, fmtOut>>

Next ==
    \/ ReadArg
    \/ EndArgs
    \/ StartReport
    \/ NextTarget
    \/ EnterDir
    \/ ReadEntry
    \/ EndDir
    \/ CloseDir
    \/ PrintTotal

Spec == Init /\ [][Next]_vars

(***************************************************************************)
(* The formatter on its own: PrintFileReadable applied to one size.        *)
(***************************************************************************)
InitFmt ==
    /\ fmtIn \in FmtSizes
    /\ fmtOut = <<>>
    /\ pc = "fmt"
    /\ argv = <<>>
    /\ noperm = {}
    /\ argi = 1
    /\ mode = [Mode0 EXCEPT !.readable = 1]
    /\ files = <<>>
    /\ filesTop = -1
    /\ invalid = 0
    /\ fi = 1
    /\ total = 0
    /\ retVal = 0
    /\ status = -1
    /\ stack = <<>>
    /\ handles = {}
    /\ nextDir = 1
    /\ closeLog = <<>>
    /\ out = <<>>
    /\ err = <<>>
    /\ lastRet = NoRet

\* lines 102-137 on fmtIn
Format ==
    /\ pc = "fmt"
    /\ fmtOut = <<>>
    /\ fmtOut' = <<PrintFileReadable(<<"f">>, fmtIn)>>
    /\ UNCHANGED <<argv, noperm, argi, mode, files, filesTop, invalid, pc, fi, total,
                   retVal, status, stack, handles, nextDir, closeLog, out, err,
                   lastRet, fmtIn>>

NextFmt == Format

SpecFmt == InitFmt /\ [][NextFmt]_vars

(***************************************************************************)
(* Reference definitions the properties are stated with.                   *)
(***************************************************************************)
RECURSIVE Usage(_), SumUsage(_)
\* the usage of a node: its own cost, plus for a directory that can be
\* opened the usage of every entry
Usage(n) ==
    StBlocks[n] \div 2
    + (IF StMode[n] = "dir" /\ n \notin noperm THEN SumUsage(Children[n]) ELSE 0)

SumUsage(cs) == IF cs = <<>> THEN 0 ELSE Usage(Head(cs)) + SumUsage(Tail(cs))

Accessible(t) == lstat(t).ok

\* what a target adds to the grand total
TargetUsage(t) ==
    IF ~Accessible(t) THEN 0
    ELSE IF StMode[NodeOf(t)] \in {"reg", "lnk", "dir"} THEN Usage(NodeOf(t))
    ELSE 0

RECURSIVE SumTargets(_)
SumTargets(ts) == IF ts = <<>> THEN 0 ELSE TargetUsage(Head(ts)) + SumTargets(Tail(ts))

\* the targets of a run: "." when none is given
TargetsOf == IF files = <<>> THEN << <<".">> >> ELSE files

\* PrintDiskUsage has returned and main has set the exit status
Reported == pc = "exit" /\ invalid = 0

Visible(line) == [field |-> line.field, name |-> line.name]

VisibleOut(lines) == [i \in 1..Len(lines) |-> Visible(lines[i])]

IsDepthArg(a) == Len(a) >= 12 /\ SubSeq(a, 1, 12) = Str_max_depth

DepthValue(a) == SubSeq(a, 13, Len(a))

(***************************************************************************)
(* C1.  The total PrintDirectoryUsage returns for a directory it could     *)
(* open is the directory's own cost (st_blocks / 2) plus the usage of      *)
(* every entry other than "." and "..": st_blocks / 2 of a non-directory,  *)
(* the returned total of a sub-directory.  It is the same under every      *)
(* setting of -a, -h and --max-depth, whichever entries were printed.      *)
(***************************************************************************)
C1_ReturnedTotalIsUsage ==
    (lastRet # NoRet /\ lastRet.opened)
        => /\ lastRet.total = Usage(NodeOf(lastRet.file))
           /\ lastRet.total = StBlocks[NodeOf(lastRet.file)] \div 2
                              + SumUsage(Children[NodeOf(lastRet.file)])

\* a walk with -a and --max-depth=1 has returned from the top directory: the
\* files at depth 1 were printed, those below were not
C1_Witness ==
    /\ lastRet.opened
    /\ lastRet.depth = 0
    /\ mode.all = 1
    /\ mode.depth = 1
    /\ noperm = {}
    /\ \E i \in 1..Len(out) : out[i].site = "entry"
    /\ lastRet.total = 37

(***************************************************************************)
(* C3.  PrintDiskUsage processes every target in order.  A target whose    *)
(* lstat fails gets a diagnostic on standard error and adds nothing to the *)
(* grand total; every regular-file, symlink and directory target is        *)
(* reported, before or after a failing one (a line of its own on standard  *)
(* output, or for a directory that cannot be opened the diagnostic of line *)
(* 162); the status is failure exactly when some target was inaccessible.  *)
(***************************************************************************)
IsCannotAccess(d) == d.msg = "cannot access"

IsTopLine(l) == l.site = "target" \/ (l.site = "dir" /\ l.depth = 0)

\* a target that gets a line of its own: a file or symlink, or a directory
\* that can be opened
Shown(t) ==
    /\ Accessible(t)
    /\ \/ StMode[NodeOf(t)] \in {"reg", "lnk"}
       \/ StMode[NodeOf(t)] = "dir" /\ NodeOf(t) \notin noperm

C6_GrandTotalLine ==
    Reported =>
        LET tot == SelectSeq(out, LAMBDA l : l.site = "total") IN
        IF mode.total # 0
        THEN /\ Len(tot) = 1
             /\ out[Len(out)].site = "total"
             /\ out[Len(out)].name = <<"t", "o", "t", "a", "l">>
             /\ out[Len(out)].size = SumTargets(TargetsOf)
             /\ out[Len(out)].field = PrintFileUsage(SumTargets(TargetsOf), <<>>, mode).field
             /\ mode.readable = 0 => out[Len(out)].field = Pad8(FmtInt(SumTargets(TargetsOf)))
        ELSE tot = <<>>

\* a run with -c over a file of usage 3 and a directory of usage 29 has
\* printed its total line
C6_Witness ==
    /\ Reported
    /\ mode.total = 1
    /\ files = << <<"a">>, <<"d">> >>
    /\ noperm = {}
    /\ out # <<>>
    /\ out[Len(out)].site = "total"
    /\ out[Len(out)].size = 32

(***************************************************************************)
(* C9.  Every directory stream PrintDirectoryUsage opened is closed        *)
(* exactly once before the call returns: the open streams are those of the *)
(* calls in progress, so there are at most as many as the recursion is     *)
(* deep and none once the walk of a target has returned, and closedir is   *)
(* never given a stream that is already closed.                            *)
(***************************************************************************)
OpenedSoFar == 1..(nextDir - 1)

ClosedSoFar == {closeLog[i] : i \in 1..Len(closeLog)} \ {NULL}

C9_HandlesScoped ==
    /\ Cardinality(handles) <= Len(stack)
    /\ handles = {stack[i].dir : i \in 1..Len(stack)} \ {NULL}
    /\ stack = <<>> => handles = {}
    /\ \A i, j \in 1..Len(closeLog) :
          (i # j /\ closeLog[i] = closeLog[j]) => closeLog[i] = NULL
    /\ handles \cup ClosedSoFar = OpenedSoFar
    /\ handles \cap ClosedSoFar = {}

\* a run has ended after a walk that opened three directories and met one
\* that could not be opened
C9_Witness ==
    /\ pc = "exit"
    /\ nextDir = 3
    /\ Len(closeLog) = 3
    /\ \E i \in 1..Len(closeLog) : closeLog[i] = NULL
    /\ handles = {}

(***************************************************************************)
(* C2.  With --max-depth=0 and a single directory target the run prints    *)
(* exactly one line on standard output, the root directory with its        *)
(* total, and no line for any entry, with -a or without.  (Stated for      *)
(* runs without -c, whose total line is a line of its own.)                *)
(***************************************************************************)
HasArg(a) == \E i \in 1..Len(argv) : argv[i] = a

SingleDirTarget ==
    /\ Len(TargetsOf) = 1
    /\ Accessible(TargetsOf[1])
    /\ StMode[NodeOf(TargetsOf[1])] = "dir"

C2_DepthZeroOneLine ==
    (/\ Reported
     /\ HasArg(Str_max_depth \o <<"0">>)
     /\ mode.depth = 0
     /\ mode.total = 0
     /\ SingleDirTarget)
        => /\ Len(out) = 1
           /\ out[1].name = TargetsOf[1]
           /\ out[1].size = Usage(NodeOf(TargetsOf[1]))

(***************************************************************************)
(* C4.  Every argument --max-depth=<value> whose value is non-numeric,     *)
(* negative or empty is a configuration error: ReadCmdArguments writes a   *)
(* diagnostic for it, goes on parsing, and the process then ends with      *)
(* failure status before any walk or any line on standard output.          *)
(***************************************************************************)
\* a value that is not a non-empty string of decimal digits
Malformed(v) == v = <<>> \/ \E i \in 1..Len(v) : ~IsDigit(v[i])

C4_MalformedDepthRejected ==
    \A i \in 1..Len(argv) :
        (IsDepthArg(argv[i]) /\ Malformed(DepthValue(argv[i])) /\ argi > i /\ pc # "fault")
            => /\ invalid = 1
               /\ \E k \in 1..Len(err) :
                     err[k].msg = "invalid maximum depth" /\ err[k].arg = DepthValue(argv[i])
               /\ pc \in {"args", "exit"}
               /\ out = <<>>
               /\ stack = <<>>
               /\ pc = "exit" => status = EXIT_FAILURE

(***************************************************************************)
(* C7.  In human-readable mode PrintFileReadable picks the largest unit    *)
(* among K, M, G, T whose scaled value (the size divided by 1024 per unit  *)
(* step) is >= 1, prints the scaled value as an integer with the unit when *)
(* it is >= 10 and with one decimal and the unit when it is in [1, 10),    *)
(* and prints a size of zero as "0" with no unit.                          *)
(***************************************************************************)
UnitNames == <<"K", "M", "G", "T">>

Scaled(kb, u) == [m |-> kb.m, e |-> kb.e - u]

\* the largest unit step whose scaled value is >= 1
UnitOf(kb) == CHOOSE u \in 0..TopUnit :
                 /\ GeOne(Scaled(kb, u))
                 /\ \A w \in 0..TopUnit : GeOne(Scaled(kb, w)) => w <= u

C7_ReadableForm ==
    (pc = "fmt" /\ fmtOut # <<>>) =>
        LET f == fmtOut[1].field IN
        IF fmtIn.m = 0 THEN f = Pad8(<<"0">>)
        ELSE LET u == UnitOf(fmtIn)
                 x == Scaled(fmtIn, u)
                 unit == <<UnitNames[u + 1]>>
             IN  IF Trunc(x) >= 10
                 THEN \E n \in {Trunc(x), Trunc(x) + 1} : f = Pad8(FmtInt(n) \o unit)
                 ELSE \E t \in 10..100 : f = Pad8(FmtTenths(t) \o unit)

(***************************************************************************)
(* C8.  When a directory met during the walk cannot be opened,             *)
(* PrintDirectoryUsage writes a diagnostic and returns the directory's own *)
(* cost (st_blocks / 2) alone, and the walk goes on: the later entries are *)
(* visited and the directories above add that total and print their line.  *)
(***************************************************************************)
C8_OpenFailureRecovers ==
    /\ \* the call that could not open its directory, about to return
       (stack # <<>> /\ Top.at = "cleanup" /\ Top.dir = NULL) =>
          /\ err # <<>>
          /\ err[Len(err)].msg = "cannot read directory"
          /\ err[Len(err)].arg = Top.file
          /\ Top.total = StBlocks[NodeOf(Top.file)] \div 2
    /\ (lastRet # NoRet /\ ~lastRet.opened) =>
          lastRet.total = StBlocks[NodeOf(lastRet.file)] \div 2
    /\ \* the walk is never cut short below a directory that is being read
       ~(pc = "fault" /\ Len(stack) > 1)

(***************************************************************************)
(* C10.  ReadCmdArguments writes the target paths and the terminating NULL *)
(* only into slots 0..MAX_FILES-1 of the files array, whatever the number  *)
(* of non-flag arguments.                                                  *)
(***************************************************************************)
C10_FilesWritesInBounds == filesTop < MAX_FILES

(***************************************************************************)
(* C5.  An invocation with --max-depth=-1, or with --max-depth= and no     *)
(* value, behaves as the same invocation without any depth flag: the same  *)
(* lines on standard output and the same exit status, for every tree and   *)
(* every other flag.                                                       *)
(*                                                                         *)
(* What the invocation without a depth flag prints and returns is defined  *)
(* here from the description of the tool: -a, -c and -h in clusters, any   *)
(* other option an error that ends the run with failure and no output,     *)
(* every other argument a target, reporting at unlimited depth.            *)
(***************************************************************************)
NoDepthFlags(args) == SelectSeq(args, LAMBDA a : ~IsDepthArg(a))

RefIsOption(a) == a # <<>> /\ Head(a) = "-"

RefBadOption(a) ==
    \/ Len(a) >= 2 /\ a[2] = "-"
    \/ \E i \in 2..Len(a) : a[i] \notin {"a", "c", "h"}

RefHas(args, c) ==
    \E i \in 1..Len(args) :
        RefIsOption(args[i]) /\ \E k \in 2..Len(args[i]) : args[i][k] = c

RefMode(args) ==
    [all      |-> IF RefHas(args, "a") THEN 1 ELSE 0,
     total    |-> IF RefHas(args, "c") THEN 1 ELSE 0,
     readable |-> IF RefHas(args, "h") THEN 1 ELSE 0,
     depth    |-> -1,
     progName |-> progName]

RefJoin(path, name) == IF path = <<"/">> THEN path \o name ELSE path \o <<"/">> \o name

RefLine(size, name, m) == PrintFileUsage(size, name, m)

RECURSIVE RefWalk(_, _, _), RefEntries(_, _, _)
\* the lines of the walk of the directory at path, at unlimited depth
RefWalk(path, n, m) ==
    IF n \in noperm THEN <<>>
    ELSE RefEntries(path, Children[n], m) \o <<RefLine(Usage(n), path, m)>>

RefEntries(path, cs, m) ==
    IF cs = <<>> THEN <<>>
    ELSE LET c  == Head(cs)
             cp == RefJoin(path, <<c>>)
         IN  (IF StMode[c] = "dir" THEN RefWalk(cp, c, m)
              ELSE IF StMode[c] \in {"reg", "lnk"} /\ m.all = 1
              THEN <<RefLine(Usage(c), cp, m)>>
              ELSE <<>>)
             \o RefEntries(path, Tail(cs), m)

RECURSIVE RefTargets(_, _)
RefTargets(ts, m) ==
    IF ts = <<>> THEN <<>>
    ELSE LET t == Head(ts) IN
         (IF ~Accessible(t) THEN <<>>
          ELSE IF StMode[NodeOf(t)] = "dir" THEN RefWalk(t, NodeOf(t), m)
          ELSE IF StMode[NodeOf(t)] \in {"reg", "lnk"}
          THEN <<RefLine(Usage(NodeOf(t)), t, m)>>
          ELSE <<>>)
         \o RefTargets(Tail(ts), m)

\* standard output and exit status of the invocation args, which has no depth flag
RefRun(args) ==
    LET m  == RefMode(args)
        ts == SelectSeq(args, LAMBDA a : ~RefIsOption(a))
        us == IF ts = <<>> THEN << <<".">> >> ELSE ts
    IN  IF \E i \in 1..Len(args) : RefIsOption(args[i]) /\ RefBadOption(args[i])
        THEN [out |-> <<>>, status |-> EXIT_FAILURE]
        ELSE [out |-> RefTargets(us, m)
                      \o (IF m.total = 1
                          THEN <<RefLine(SumTargets(us), <<"t", "o", "t", "a", "l">>, m)>>
                          ELSE <<>>),
              status |-> IF \E i \in 1..Len(ts) : ~Accessible(ts[i])
                         THEN EXIT_FAILURE ELSE EXIT_SUCCESS]

\* the reference agrees with the program on every run without a depth flag
RefRunAgrees ==
    (pc = "exit" /\ NoDepthFlags(argv) = argv)
        => RefRun(argv) = [out |-> VisibleOut(out), status |-> status]

\* --max-depth=-1 or --max-depth= is among the arguments
HasUnlimitedDepthFlag == HasArg(Str_max_depth \o <<"-", "1">>) \/ HasArg(Str_max_depth)

\* the claim as stated
C5_SameAsNoDepthFlag ==
    (pc = "exit" /\ HasUnlimitedDepthFlag)
        => RefRun(NoDepthFlags(argv)) = [out |-> VisibleOut(out), status |-> status]

\* C5 as amended: such an invocation is refused.  No directory is ever
\* walked and nothing is ever written on standard output; when it exits it
\* has the diagnostic of an invalid maximum depth and the status is failure;
\* it behaves as the invocation without the depth flag only when that one,
\* too, prints nothing and fails.
C5_UnlimitedDepthFlagRefused ==
    HasUnlimitedDepthFlag =>
        /\ out = <<>>
        /\ stack = <<>>
        /\ nextDir = 1
        /\ pc \in {"args", "exit", "fault"}
        /\ pc = "exit" =>
              /\ status = EXIT_FAILURE
              /\ \E k \in 1..Len(err) : err[k].msg = "invalid maximum depth"
              /\ (RefRun(NoDepthFlags(argv)) = [out |-> VisibleOut(out), status |-> status])
                    <=> (RefRun(NoDepthFlags(argv)) = [out |-> <<>>, status |-> EXIT_FAILURE])

\* a run with --max-depth=-1 and a directory target has ended, where the run
\* without the flag prints lines and succeeds
C5_Witness ==
    /\ pc = "exit"
    /\ HasArg(Str_max_depth \o <<"-", "1">>)
    /\ files = << <<"d">> >>
    /\ RefRun(NoDepthFlags(argv)).status = EXIT_SUCCESS
    /\ RefRun(NoDepthFlags(argv)).out # <<>>
    /\ status = EXIT_FAILURE

====
